---- MODULE Spec2Model ----
(***************************************************************************)
(* Model of shign: loudness-envelope extraction, shift estimation by       *)
(* normalized cross-correlation, and the three alignment transforms.       *)
(*                                                                         *)
(* Python floats are IEEE-754 binary64.  The millisecond <-> sample        *)
(* conversions of shign/util.py are computed here bit-exactly: a float is  *)
(* a record [s, m, e] of value s * m * 2^e with 2^52 <= m < 2^53 (m = 0    *)
(* for zero), and every operation rounds to nearest, ties to even.         *)
(* Mantissas exceed the range of 32-bit integers, so they are kept         *)
(* as little-endian sequences of limbs in base 2^14.                       *)
(***************************************************************************)
EXTENDS Integers, Sequences, FiniteSets, TLC

\* ------------------------------------------------------------------------
\* Natural numbers of arbitrary size (limbs, least significant first)
\* ------------------------------------------------------------------------
BASE == 16384
LIMB_BITS == 14
MANT_BITS == 53
DIV_GUARD_BITS == 28

Pow2(k) == 2^k

RECURSIVE BigNorm(_)
BigNorm(b) ==
    IF Len(b) = 0 THEN b
    ELSE IF b[Len(b)] = 0 THEN BigNorm(SubSeq(b, 1, Len(b) - 1))
    ELSE b

RECURSIVE BigFromInt(_)
BigFromInt(n) == IF n = 0 THEN << >> ELSE <<n % BASE>> \o BigFromInt(n \div BASE)

RECURSIVE BigToInt(_)
BigToInt(b) == IF Len(b) = 0 THEN 0 ELSE b[1] + BASE * BigToInt(Tail(b))

BigIsZero(b) == Len(BigNorm(b)) = 0

Limb(b, i) == IF i <= Len(b) THEN b[i] ELSE 0

\* limbs i.. of b * c + carry, given the limbs below i in acc
RECURSIVE BigMulSmallFrom(_, _, _, _, _)
BigMulSmallFrom(b, c, i, carry, acc) ==
    IF i > Len(b) THEN acc \o BigFromInt(carry)
    ELSE BigMulSmallFrom(b, c, i + 1, (b[i] * c + carry) \div BASE,
                         Append(acc, (b[i] * c + carry) % BASE))

BigMulSmall(b, c) == BigNorm(BigMulSmallFrom(b, c, 1, 0, << >>))

\* long division by c from the most significant limb down; result [q, r]
RECURSIVE BigDivSmallFrom(_, _, _, _, _)
BigDivSmallFrom(b, c, i, rem, acc) ==
    IF i = 0 THEN [q |-> BigNorm(acc), r |-> rem]
    ELSE BigDivSmallFrom(b, c, i - 1, (rem * BASE + b[i]) % c,
                         <<(rem * BASE + b[i]) \div c>> \o acc)

BigDivSmall(b, c) == BigDivSmallFrom(b, c, Len(b), 0, << >>)

RECURSIVE BigCmpFrom(_, _, _)
BigCmpFrom(a, b, i) ==
    IF i = 0 THEN 0
    ELSE IF a[i] > b[i] THEN 1
    ELSE IF a[i] < b[i] THEN -1
    ELSE BigCmpFrom(a, b, i - 1)

\* comparison of two numbers without leading zero limbs
BigCmpNorm(x, y) ==
    IF Len(x) > Len(y) THEN 1
    ELSE IF Len(x) < Len(y) THEN -1
    ELSE BigCmpFrom(x, y, Len(x))

BigCmp(a, b) == BigCmpNorm(BigNorm(a), BigNorm(b))

RECURSIVE BigAddFrom(_, _, _, _, _)
BigAddFrom(a, b, i, carry, acc) ==
    IF i > Len(a) /\ i > Len(b) THEN acc \o BigFromInt(carry)
    ELSE BigAddFrom(a, b, i + 1, (Limb(a, i) + Limb(b, i) + carry) \div BASE,
                    Append(acc, (Limb(a, i) + Limb(b, i) + carry) % BASE))

BigAdd(a, b) == BigNorm(BigAddFrom(a, b, 1, 0, << >>))

\* a - b for a >= b
RECURSIVE BigSubFrom(_, _, _, _, _)
BigSubFrom(a, b, i, borrow, acc) ==
    IF i > Len(a) THEN acc
    ELSE IF a[i] - Limb(b, i) - borrow < 0
    THEN BigSubFrom(a, b, i + 1, 1, Append(acc, a[i] - Limb(b, i) - borrow + BASE))
    ELSE BigSubFrom(a, b, i + 1, 0, Append(acc, a[i] - Limb(b, i) - borrow))

BigSub(a, b) == BigNorm(BigSubFrom(a, b, 1, 0, << >>))

\* number of bits of a limb
SmallBitLen(n) == CHOOSE k \in 0..LIMB_BITS : n < Pow2(k) /\ (k = 0 \/ n >= Pow2(k - 1))

BigBitLenNorm(x) ==
    IF Len(x) = 0 THEN 0
    ELSE LIMB_BITS * (Len(x) - 1) + SmallBitLen(x[Len(x)])

BigBitLen(b) == BigBitLenNorm(BigNorm(b))

\* a function over 1..n evaluated once, as a tuple
Array(f) == f \o << >>

Zeros(n) == Array([i \in 1..n |-> 0])

BigShl(b, k) == BigNorm(Zeros(k \div LIMB_BITS) \o BigMulSmall(b, Pow2(k % LIMB_BITS)))

BigShr(b, k) ==
    IF k \div LIMB_BITS >= Len(b) THEN << >>
    ELSE BigDivSmall(SubSeq(b, k \div LIMB_BITS + 1, Len(b)), Pow2(k % LIMB_BITS)).q

\* ------------------------------------------------------------------------
\* binary64 arithmetic: [s |-> sign, m |-> mantissa limbs, e |-> exponent]
\* ------------------------------------------------------------------------
FZero == [s |-> 1, m |-> << >>, e |-> 0]

FIsZero(x) == Len(x.m) = 0

FSign(x) == IF FIsZero(x) THEN 0 ELSE x.s

FNeg(x) == IF FIsZero(x) THEN x ELSE [x EXCEPT !.s = -x.s]

\* the rounded mantissa r reached 2^53
FRoundCarry(s, e, r) ==
    IF BigBitLenNorm(r) > MANT_BITS
    THEN [s |-> s, m |-> BigShr(r, 1), e |-> e + 1]
    ELSE [s |-> s, m |-> r, e |-> e]

\* q2 is M without its t - 1 lowest bits: the kept 53 bits and the half bit
FRoundCut(s, M, e, sticky, t, q2) ==
    IF /\ Limb(q2, 1) % 2 = 1
       /\ \/ sticky
          \/ Limb(q2, 1) % 4 >= 2
          \/ BigCmp(BigShl(q2, t - 1), M) # 0
    THEN FRoundCarry(s, e + t, BigAdd(BigShr(q2, 1), <<1>>))
    ELSE [s |-> s, m |-> BigShr(q2, 1), e |-> e + t]

FRoundLen(s, M, e, sticky, bl) ==
    IF bl = 0 THEN FZero
    ELSE IF bl <= MANT_BITS
    THEN [s |-> s, m |-> BigShl(M, MANT_BITS - bl), e |-> e - (MANT_BITS - bl)]
    ELSE FRoundCut(s, M, e, sticky, bl - MANT_BITS, BigShr(M, bl - MANT_BITS - 1))

\* round the exact value s * M * 2^e (plus a nonzero tail below it when
\* sticky) to 53 significant bits, to nearest, ties to even
FRound(s, M, e, sticky) == FRoundLen(s, M, e, sticky, BigBitLen(M))

FFromInt(n) ==
    FRound(IF n < 0 THEN -1 ELSE 1, BigFromInt(IF n < 0 THEN -n ELSE n), 0, FALSE)

\* s * (d.q + a fraction that is nonzero iff d.r is) * 2^e
FRoundQuotient(s, d, e) == FRound(s, d.q, e, d.r # 0)

\* x / c for an integer-valued float c, 0 < c < 2^17: the quotient of the
\* mantissa shifted by DIV_GUARD_BITS keeps at least 63 bits, and the
\* remainder tells whether anything lies below them
FDivInt(x, c) ==
    IF FIsZero(x) THEN FZero
    ELSE FRoundQuotient(x.s, BigDivSmall(BigShl(x.m, DIV_GUARD_BITS), c), x.e - DIV_GUARD_BITS)

\* x * c for an integer-valued float c >= 0
FMulInt(x, c) ==
    IF FIsZero(x) THEN FZero
    ELSE FRound(x.s, BigMulSmall(x.m, c), x.e, FALSE)

\* sx * X + sy * Y for X, Y on the common exponent e0; c compares X to Y
FAddAligned(sx, sy, X, Y, e0, c) ==
    FRound(IF sx = sy \/ c >= 0 THEN sx ELSE sy,
           IF sx = sy THEN BigAdd(X, Y)
           ELSE IF c >= 0 THEN BigSub(X, Y)
           ELSE BigSub(Y, X),
           e0, FALSE)

Max2(x, y) == IF x > y THEN x ELSE y

Min2(x, y) == IF x < y THEN x ELSE y

FAddTo(x, y, X, Y) == FAddAligned(x.s, y.s, X, Y, Min2(x.e, y.e), BigCmp(X, Y))

FAdd(x, y) ==
    IF FIsZero(x) THEN y
    ELSE IF FIsZero(y) THEN x
    ELSE FAddTo(x, y, BigShl(x.m, x.e - Min2(x.e, y.e)), BigShl(y.m, y.e - Min2(x.e, y.e)))

FSub(x, y) == FAdd(x, FNeg(y))

\* int(x): truncation toward zero
FTrunc(x) ==
    IF FIsZero(x) THEN 0
    ELSE IF x.e >= 0 THEN x.s * BigToInt(BigShl(x.m, x.e))
    ELSE x.s * BigToInt(BigShr(x.m, -x.e))

\* max(0, x) and -min(0, x)
FMax0(x) == IF FSign(x) > 0 THEN x ELSE FZero

FNegMin0(x) == IF FSign(x) < 0 THEN FNeg(x) ELSE FZero

\* ------------------------------------------------------------------------
\* shign/util.py
\* ------------------------------------------------------------------------
sec_to_samples(sec, sr) == FTrunc(FMulInt(sec, sr))

ms_to_samples(ms, sr) == sec_to_samples(FDivInt(ms, 1000), sr)

samples_to_sec(samples, sr) == FDivInt(FFromInt(samples), sr)

samples_to_ms(samples, sr) == FMulInt(samples_to_sec(samples, sr), 1000)

frames_to_ms(frames, frame_length_ms) == FMulInt(frames, frame_length_ms)

ms_to_frames(ms, frame_length_ms) == FTrunc(FDivInt(ms, frame_length_ms))

sec_to_frames(sec, frame_length_ms) == ms_to_frames(FMulInt(sec, 1000), frame_length_ms)

\* the float a parameter of v thousandths of a second is passed as (v / 1000)
Sec(v) == FDivInt(FFromInt(v), 1000)

RECURSIVE SumSq(_)
SumSq(w) == IF Len(w) = 0 THEN 0 ELSE w[1] * w[1] + SumSq(Tail(w))

\* the root r of a mean square sum_sq / n
ExactRoot(sum_sq, n) == CHOOSE r \in 0..sum_sq : r * r * n = sum_sq

\* np.sqrt(np.mean(w ** 2)); the inputs are drawn so that the mean square of
\* every window is a perfect square and the root is exact
Rms(w) == ExactRoot(SumSq(w), Len(w))

\* the values of range(0, stop, hop_length), count of them given
RangeValues(count, hop_length) == Array([j \in 1..count |-> (j - 1) * hop_length])

\* range(0, n - win_length, hop_length), as the sequence of its values
FrameStarts(n, win_length, hop_length) ==
    RangeValues(IF n - win_length <= 0 THEN 0
                ELSE (n - win_length + hop_length - 1) \div hop_length,
                hop_length)

EnvelopeAt(audio, starts, win_length) ==
    Array([j \in 1..Len(starts) |->
              Rms(SubSeq(audio, starts[j] + 1, starts[j] + win_length))])

EnvelopeFrames(audio, win_length, hop_length) ==
    EnvelopeAt(audio, FrameStarts(Len(audio), win_length, hop_length), win_length)

audio_to_rms_envelope(audio, sr, win_ms, hop_ms) ==
    EnvelopeFrames(audio, ms_to_samples(FFromInt(win_ms), sr),
                   ms_to_samples(FFromInt(hop_ms), sr))

\* ------------------------------------------------------------------------
\* shign/shign.py: get_shift_ms
\* ------------------------------------------------------------------------
\* term l of entry k: a[l] * b[l - k + len(b) - 1] when that index exists
CorrTerm(a, b, l, j) == IF j >= 0 /\ j < Len(b) THEN a[l + 1] * b[j + 1] ELSE 0

RECURSIVE CorrSum(_, _, _, _)
CorrSum(a, b, k, l) ==
    IF l = Len(a) THEN 0
    ELSE CorrTerm(a, b, l, l - k + Len(b) - 1) + CorrSum(a, b, k, l + 1)

\* variant: the two envelopes exchanged
Correlate_exchanged(a, b) == Array([i \in 1..(Len(a) + Len(b) - 1) |-> CorrSum(b, a, i - 1, 0)])

\* scipy.signal.correlate(a, b, mode='full'): entry k (0-based) is kept at
\* position k + 1
Correlate(a, b) == Array([i \in 1..(Len(a) + Len(b) - 1) |-> CorrSum(a, b, i - 1, 0)])

Ones(a) == Array([i \in 1..Len(a) |-> 1])

\* corr_num / corr_denom, each quotient kept as the pair <<num, denom>>
Normalize(num, denom) == Array([i \in 1..Len(num) |-> <<num[i], denom[i]>>])

RatZero == <<0, 1>>

RatGreater(x, y) == x[1] * y[2] > y[1] * x[2]

\* m = len(corr) div 2 for an odd len(corr): numpy rounds m + 0.5 to even
RoundHalfEven(m) == IF m % 2 = 0 THEN m ELSE m + 1

\* int(np.round(len(corr) / 2))
HalfIdx(len_corr) ==
    IF len_corr % 2 = 0 THEN len_corr \div 2 ELSE RoundHalfEven(len_corr \div 2)

\* corr[:n] = 0 for n >= 0
ZeroHead(c, n) == Array([i \in 1..Len(c) |-> IF i <= n THEN RatZero ELSE c[i]])

\* corr[start:] = 0 for a 0-based start >= 0
ZeroFrom(c, start) == Array([i \in 1..Len(c) |-> IF i > start THEN RatZero ELSE c[i]])

\* corr[-n:] = 0 for n >= 0: -0 is 0, so n = 0 selects the whole array
ZeroTail(c, n) ==
    IF n = 0 THEN ZeroFrom(c, 0)
    ELSE ZeroFrom(c, Max2(Len(c) - n, 0))

\* lines 54-55
ZeroEdges(c, n) == ZeroTail(ZeroHead(c, n), n)

MinOverlapMask(c, min_overlap, hop_ms) ==
    IF min_overlap # 0
    THEN ZeroEdges(c, sec_to_frames(Sec(min_overlap), hop_ms))
    ELSE c

\* lines 59-60
ZeroOutside(c, half_idx, n) ==
    ZeroFrom(ZeroHead(c, Max2(half_idx - n, 0)), Min2(half_idx + n, Len(c)))

MaxShiftMask(c, max_shift, hop_ms) ==
    IF max_shift # 0
    THEN ZeroOutside(c, HalfIdx(Len(c)), sec_to_frames(Sec(max_shift), hop_ms))
    ELSE c

\* np.argmax: 0-based index of the first maximum
ArgMax(c) ==
    (CHOOSE i \in 1..Len(c) :
        /\ \A j \in 1..Len(c) : ~RatGreater(c[j], c[i])
        /\ \A j \in 1..(i - 1) : RatGreater(c[i], c[j])) - 1

\* variant: the correction from centers to starts left out
ShiftMs_centers(arg_max, half_idx, len_a, len_b, hop_ms) ==
    frames_to_ms(FFromInt(arg_max - half_idx), hop_ms)

\* lines 62-64: shift of the centers, correction to the starts, frames to ms
ShiftMs(arg_max, half_idx, len_a, len_b, hop_ms) ==
    frames_to_ms(FAdd(FFromInt(arg_max - half_idx), FDivInt(FFromInt(len_a - len_b), 2)),
                 hop_ms)

\* lines 62-66, with the arrays of the call
ShiftOfCorr(ra, rb, cn, cm, c, hop_ms) ==
    [raised |-> FALSE, rms_a |-> ra, rms_b |-> rb, corr_norm |-> cn,
     corr_min |-> cm, corr |-> c,
     shift_ms |-> ShiftMs(ArgMax(c), HalfIdx(Len(c)), Len(ra), Len(rb), hop_ms)]

\* lines 57-60
ShiftOfMinMasked(ra, rb, cn, cm, hop_ms, max_shift) ==
    ShiftOfCorr(ra, rb, cn, cm, MaxShiftMask(cm, max_shift, hop_ms), hop_ms)

\* lines 52-55
ShiftOfNormalized(ra, rb, cn, hop_ms, min_overlap, max_shift) ==
    ShiftOfMinMasked(ra, rb, cn, MinOverlapMask(cn, min_overlap, hop_ms), hop_ms, max_shift)

\* lines 47-49; the correlation of an empty envelope is rejected by
\* scipy/numpy with a ValueError
ShiftOfEnvelopes(ra, rb, hop_ms, min_overlap, max_shift) ==
    IF Len(ra) = 0 \/ Len(rb) = 0
    THEN [raised |-> TRUE, rms_a |-> ra, rms_b |-> rb, corr_norm |-> << >>,
          corr_min |-> << >>, corr |-> << >>, shift_ms |-> FZero]
    ELSE ShiftOfNormalized(ra, rb,
                           Normalize(Correlate(ra, rb), Correlate(Ones(ra), Ones(rb))),
                           hop_ms, min_overlap, max_shift)

get_shift_ms(a, b, sra, srb, win_ms, hop_ms, min_overlap, max_shift) ==
    ShiftOfEnvelopes(audio_to_rms_envelope(a, sra, win_ms, hop_ms),
                     audio_to_rms_envelope(b, srb, win_ms, hop_ms),
                     hop_ms, min_overlap, max_shift)

\* ------------------------------------------------------------------------
\* shign/shign.py: alignment transforms
\* ------------------------------------------------------------------------
\* x[n:] for n >= 0
DropFirst(x, n) == IF n >= Len(x) THEN << >> ELSE SubSeq(x, n + 1, Len(x))

\* x[:-n] for n > 0
DropLast(x, n) == IF n >= Len(x) THEN << >> ELSE SubSeq(x, 1, Len(x) - n)

\* shift_end_ms: duration of a minus duration of b, in milliseconds
ShiftEndMs(a, b, sra, srb) == FSub(samples_to_ms(Len(a), sra), samples_to_ms(Len(b), srb))

\* variant: the leading silence given to a for a positive shift
PadStartSamplesA_positive(sra, shift) == ms_to_samples(FMax0(shift), sra)

PadStartSamplesA(sra, shift) == ms_to_samples(FNegMin0(shift), sra)

PadStartSamplesB(srb, shift) == ms_to_samples(FMax0(shift), srb)

\* Each intermediate value of the code is bound once, as the element of a
\* singleton set, in the order of the assignments.

\* lines 122-131
PadEnds(a1, b1, sra, srb) ==
    CHOOSE r \in {<<a1 \o Zeros(ms_to_samples(FNegMin0(shift_end_ms), sra)),
                    b1 \o Zeros(ms_to_samples(FMax0(shift_end_ms), srb))>> :
                  shift_end_ms \in {ShiftEndMs(a1, b1, sra, srb)}} : TRUE

pad_both(a, b, sra, srb, shift) ==
    CHOOSE r \in {PadEnds(a1, b1, sra, srb) :
                  a1 \in {Zeros(PadStartSamplesA(sra, shift)) \o a},
                  b1 \in {Zeros(PadStartSamplesB(srb, shift)) \o b}} : TRUE

\* x[:-n] if n > 0
DropLastIfPositive(x, n) == IF n > 0 THEN DropLast(x, n) ELSE x

\* lines 189-200
CropEnds(a1, b1, sra, srb) ==
    CHOOSE r \in {<<DropLastIfPositive(a1, ms_to_samples(FMax0(shift_end_ms), sra)),
                    DropLastIfPositive(b1, ms_to_samples(FNegMin0(shift_end_ms), srb))>> :
                  shift_end_ms \in {ShiftEndMs(a1, b1, sra, srb)}} : TRUE

crop_both(a, b, sra, srb, shift) ==
    CHOOSE r \in {CropEnds(a1, b1, sra, srb) :
                  a1 \in {DropFirst(a, ms_to_samples(FMax0(shift), sra))},
                  b1 \in {DropFirst(b, ms_to_samples(FNegMin0(shift), srb))}} : TRUE

\* lines 253-256 and 262-265: crop for a negative count, pad otherwise
CropOrPadStart(b, n) == IF n < 0 THEN DropFirst(b, -n) ELSE Zeros(n) \o b

CropOrPadEnd(b, n) == IF n < 0 THEN DropLast(b, -n) ELSE b \o Zeros(n)

\* lines 258-265
MatchEnd(a, b1, sra, srb) ==
    CHOOSE r \in {<<a, CropOrPadEnd(b1, ms_to_samples(shift_end_ms, srb))>> :
                  shift_end_ms \in {ShiftEndMs(a, b1, sra, srb)}} : TRUE

pad_and_crop_one_to_match_other(a, b, sra, srb, shift) ==
    CHOOSE r \in {MatchEnd(a, b1, sra, srb) :
                  b1 \in {CropOrPadStart(b, ms_to_samples(shift, srb))}} : TRUE

\* ------------------------------------------------------------------------
\* State: the arguments of one call, its intermediate arrays and its result
\* ------------------------------------------------------------------------
VARIABLES audio_a, audio_b, sr_a, sr_b, win_length_ms, hop_length_ms,
          min_overlap_sec, max_shift_sec, align_how, pc, err,
          rms_a, rms_b, corr_norm, corr_min, corr, shift_ms, out_a, out_b

vars == <<audio_a, audio_b, sr_a, sr_b, win_length_ms, hop_length_ms,
          min_overlap_sec, max_shift_sec, align_how, pc, err,
          rms_a, rms_b, corr_norm, corr_min, corr, shift_ms, out_a, out_b>>

args == <<audio_a, audio_b, sr_a, sr_b, win_length_ms, hop_length_ms,
          min_overlap_sec, max_shift_sec, align_how>>

estimate == <<rms_a, rms_b, corr_norm, corr_min, corr>>

\* bounds of the explored inputs
MaxSamples == 4
MaxLen == 4
MaxAmp == 1
MaxDelay == 2
MaxEnvSamples == 8
MaxAlignLen == 5

\* sr_a=None, sr_b=None: no sample rate given
None == 0

KnownPolicies == {"pad_both", "crop_both", "pad_and_crop_one_to_match_other"}

Policies == KnownPolicies \cup {"trim_both"}

\* sequences over S of length 0..n
RECURSIVE SeqsUpTo(_, _)
SeqsUpTo(S, n) ==
    IF n = 0 THEN {<< >>}
    ELSE LET shorter == SeqsUpTo(S, n - 1)
         IN  shorter \cup {Append(x, v) : x \in {y \in shorter : Len(y) = n - 1}, v \in S}

Ramp(n, sign) == Array([i \in 1..n |-> sign * i])

Tone(n) == Array([i \in 1..n |-> IF i % 2 = 1 THEN 1 ELSE -1])

\* b is a with d_frames hops of silence in front (d_frames < 0: with its
\* first -d_frames hops removed)
Delayed(a, d_frames, hop_ms, sr) ==
    IF d_frames >= 0
    THEN Zeros(ms_to_samples(FFromInt(d_frames * hop_ms), sr)) \o a
    ELSE DropFirst(a, ms_to_samples(FFromInt((-d_frames) * hop_ms), sr))

NoResult ==
    /\ pc = "call"
    /\ err = ""
    /\ rms_a = << >>
    /\ rms_b = << >>
    /\ corr_norm = << >>
    /\ corr_min = << >>
    /\ corr = << >>
    /\ out_a = << >>
    /\ out_b = << >>

Transform(policy, a, b, sra, srb, shift) ==
    IF policy = "pad_both" THEN pad_both(a, b, sra, srb, shift)
    ELSE IF policy = "crop_both" THEN crop_both(a, b, sra, srb, shift)
    ELSE pad_and_crop_one_to_match_other(a, b, sra, srb, shift)

\* ------------------------------------------------------------------------
\* shift_align: estimate the shift, then dispatch on align_how
\* ------------------------------------------------------------------------
Init ==
    /\ audio_a \in {Tone(n) : n \in 0..MaxAlignLen}
    /\ audio_b \in {Tone(n) : n \in 0..MaxAlignLen}
    /\ sr_a \in {None, 100}
    /\ sr_b \in {None, 100}
    /\ win_length_ms = 25
    /\ hop_length_ms = 10
    /\ min_overlap_sec \in {0, 10}
    /\ max_shift_sec \in {0, 20}
    /\ align_how \in Policies
    /\ shift_ms = FZero
    /\ NoResult

\* lines 312-313: a missing sample rate fails the assertion
AssertSampleRates ==
    /\ pc = "call"
    /\ sr_a = None \/ sr_b = None
    /\ pc' = "raised"
    /\ err' = "AssertionError"
    /\ UNCHANGED <<args, estimate, shift_ms, out_a, out_b>>

\* the arrays and the result of get_shift_ms become the state
StoreEstimate(r, returned_pc) ==
    /\ rms_a' = r.rms_a
    /\ rms_b' = r.rms_b
    /\ corr_norm' = r.corr_norm
    /\ corr_min' = r.corr_min
    /\ corr' = r.corr
    /\ shift_ms' = r.shift_ms
    /\ pc' = IF r.raised THEN "raised" ELSE returned_pc
    /\ err' = IF r.raised THEN "ValueError" ELSE ""

StoreOutputs(r) ==
    /\ out_a' = r[1]
    /\ out_b' = r[2]

\* line 315
EstimateShift ==
    /\ pc = "call"
    /\ sr_a # None /\ sr_b # None
    /\ StoreEstimate(get_shift_ms(audio_a, audio_b, sr_a, sr_b, win_length_ms,
                                  hop_length_ms, min_overlap_sec, max_shift_sec),
                     "estimated")
    /\ UNCHANGED <<args, out_a, out_b>>

\* lines 317-322
AlignKnown ==
    /\ pc = "estimated"
    /\ align_how \in KnownPolicies
    /\ StoreOutputs(Transform(align_how, audio_a, audio_b, sr_a, sr_b, shift_ms))
    /\ pc' = "returned"
    /\ UNCHANGED <<args, estimate, shift_ms, err>>

\* lines 323-324
RejectUnknown ==
    /\ pc = "estimated"
    /\ align_how \notin KnownPolicies
    /\ pc' = "raised"
    /\ err' = "Exception"
    /\ UNCHANGED <<args, estimate, shift_ms, out_a, out_b>>

Next == AssertSampleRates \/ EstimateShift \/ AlignKnown \/ RejectUnknown

Spec == Init /\ [][Next]_vars

\* ------------------------------------------------------------------------
\* get_shift_ms called directly, one sample per hop and per window
\* ------------------------------------------------------------------------
MinOverlapChoices == {0, 5, 10, 20}

MaxShiftChoices == {0, 5, 10, 30}

InitShift ==
    /\ audio_a \in SeqsUpTo(0..MaxAmp, MaxLen)
    /\ sr_a = 100
    /\ sr_b = 100
    /\ win_length_ms = 10
    /\ hop_length_ms = 10
    /\ audio_b \in {Delayed(audio_a, d, hop_length_ms, sr_b) : d \in (-MaxDelay)..MaxDelay}
    /\ min_overlap_sec \in MinOverlapChoices
    /\ max_shift_sec \in MaxShiftChoices
    /\ align_how = "pad_both"
    /\ shift_ms = FZero
    /\ NoResult

GetShiftMs ==
    /\ pc = "call"
    /\ StoreEstimate(get_shift_ms(audio_a, audio_b, sr_a, sr_b, win_length_ms,
                                  hop_length_ms, min_overlap_sec, max_shift_sec),
                     "returned")
    /\ UNCHANGED <<args, out_a, out_b>>

NextShift == GetShiftMs

SpecShift == InitShift /\ [][NextShift]_vars

\* ------------------------------------------------------------------------
\* audio_to_rms_envelope called directly
\* ------------------------------------------------------------------------
InitEnv ==
    /\ audio_a \in {Tone(n) : n \in 0..MaxEnvSamples}
    /\ audio_b = << >>
    /\ sr_a = 100
    /\ sr_b = 100
    /\ win_length_ms \in {10, 20, 30}
    /\ hop_length_ms \in {10, 20, 30}
    /\ min_overlap_sec = 0
    /\ max_shift_sec = 0
    /\ align_how = "pad_both"
    /\ shift_ms = FZero
    /\ NoResult

AudioToRmsEnvelope ==
    /\ pc = "call"
    /\ rms_a' = audio_to_rms_envelope(audio_a, sr_a, win_length_ms, hop_length_ms)
    /\ pc' = "returned"
    /\ UNCHANGED <<args, err, rms_b, corr_norm, corr_min, corr, shift_ms, out_a, out_b>>

NextEnv == AudioToRmsEnvelope

SpecEnv == InitEnv /\ [][NextEnv]_vars

\* ------------------------------------------------------------------------
\* the alignment transforms called directly with any shift
\* ------------------------------------------------------------------------
RatePairs == {<<3, 3>>, <<3, 4>>, <<4, 3>>, <<44100, 44100>>}

ShiftChoices(sra) ==
    IF sra = 44100 THEN {-1, 0, 1} ELSE {-1000, -400, -1, 0, 1, 400, 1000}

InitAlign ==
    /\ audio_a \in {Ramp(n, 1) : n \in 0..MaxSamples}
    /\ audio_b \in {Ramp(n, -1) : n \in 0..MaxSamples}
    /\ \E p \in RatePairs : sr_a = p[1] /\ sr_b = p[2]
    /\ win_length_ms = 25
    /\ hop_length_ms = 10
    /\ min_overlap_sec = 0
    /\ max_shift_sec = 0
    /\ align_how \in KnownPolicies
    /\ shift_ms \in {FFromInt(v) : v \in ShiftChoices(sr_a)}
    /\ NoResult

PadBoth ==
    /\ pc = "call"
    /\ align_how = "pad_both"
    /\ StoreOutputs(pad_both(audio_a, audio_b, sr_a, sr_b, shift_ms))
    /\ pc' = "returned"
    /\ UNCHANGED <<args, estimate, shift_ms, err>>

CropBoth ==
    /\ pc = "call"
    /\ align_how = "crop_both"
    /\ StoreOutputs(crop_both(audio_a, audio_b, sr_a, sr_b, shift_ms))
    /\ pc' = "returned"
    /\ UNCHANGED <<args, estimate, shift_ms, err>>

PadAndCropOneToMatchOther ==
    /\ pc = "call"
    /\ align_how = "pad_and_crop_one_to_match_other"
    /\ StoreOutputs(pad_and_crop_one_to_match_other(audio_a, audio_b, sr_a, sr_b, shift_ms))
    /\ pc' = "returned"
    /\ UNCHANGED <<args, estimate, shift_ms, err>>

NextAlign == PadBoth \/ CropBoth \/ PadAndCropOneToMatchOther

SpecAlign == InitAlign /\ [][NextAlign]_vars

\* ------------------------------------------------------------------------
\* Properties
\* ------------------------------------------------------------------------
Abs(x) == IF x < 0 THEN -x ELSE x

\* 2 * shift_ms, an integer (shift_ms is a whole number of half hops)
TwiceShiftMs == FTrunc(FMulInt(shift_ms, 2))

\* audio_b is audio_a behind DelayMs milliseconds of silence
IsDelayed ==
    /\ Len(audio_b) >= Len(audio_a)
    /\ audio_b = Zeros(Len(audio_b) - Len(audio_a)) \o audio_a

DelayMs == ((Len(audio_b) - Len(audio_a)) * 1000) \div sr_b

DelayFrames == DelayMs \div hop_length_ms

NonZeroFrames(rms) == {j \in 1..Len(rms) : rms[j] # 0}

\* frame counts of the two constraints, floor(sec * 1000 / hop_length_ms)
MinOverlapFrames == min_overlap_sec \div hop_length_ms

MaxShiftFrames == max_shift_sec \div hop_length_ms

C2_PadBothEqualLength ==
    (pc = "returned" /\ align_how = "pad_both")
    => /\ sr_a = sr_b => Len(out_a) = Len(out_b)
       /\ sr_a # sr_b => Abs(Len(out_a) * sr_b - Len(out_b) * sr_a) < Max2(sr_a, sr_b)
       /\ Len(out_a) >= Len(audio_a)
       /\ Len(out_b) >= Len(audio_b)

\* C3: the outputs of crop_both have equal sample counts at equal rates and
\* neither is longer than its input, for every shift.
C3_CropBothEqualLength ==
    (pc = "returned" /\ align_how = "crop_both")
    => /\ sr_a = sr_b => Len(out_a) = Len(out_b)
       /\ Len(out_a) <= Len(audio_a)
       /\ Len(out_b) <= Len(audio_b)

\* C4: pad_and_crop_one_to_match_other returns audio_a unchanged and an
\* audio_b of audio_a's duration: the same sample count at equal rates,
\* within one sample otherwise.
C4_OnlyBModified ==
    (pc = "returned" /\ align_how = "pad_and_crop_one_to_match_other")
    => /\ out_a = audio_a
       /\ sr_a = sr_b => Len(out_b) = Len(audio_a)
       /\ sr_a # sr_b => Abs(Len(out_b) * sr_a - Len(audio_a) * sr_b) <= sr_a

\* C5: each output of pad_both is its input between leading and trailing
\* zeros; for shift_ms >= 0 audio_b leads with ms_to_samples(shift_ms, sr_b)
\* zeros and audio_a with none, for shift_ms < 0 audio_a leads with
\* ms_to_samples(|shift_ms|, sr_a) zeros and audio_b with none; at most one
\* output gets trailing zeros.
C5_PadBothOnlyAddsSilence ==
    (pc = "returned" /\ align_how = "pad_both")
    => LET lead_a  == IF FSign(shift_ms) >= 0 THEN 0
                      ELSE ms_to_samples(FNeg(shift_ms), sr_a)
           lead_b  == IF FSign(shift_ms) >= 0 THEN ms_to_samples(shift_ms, sr_b)
                      ELSE 0
           trail_a == Len(out_a) - lead_a - Len(audio_a)
           trail_b == Len(out_b) - lead_b - Len(audio_b)
       IN  /\ trail_a >= 0
           /\ trail_b >= 0
           /\ out_a = Zeros(lead_a) \o audio_a \o Zeros(trail_a)
           /\ out_b = Zeros(lead_b) \o audio_b \o Zeros(trail_b)
           /\ trail_a = 0 \/ trail_b = 0

C5_Witness ==
    /\ pc = "returned"
    /\ align_how = "pad_both"
    /\ FSign(shift_ms) < 0
    /\ Len(audio_a) > 0
    /\ Len(out_a) > Len(audio_a)
    /\ out_a[1] = 0
    /\ Len(out_b) > Len(audio_b)
    /\ out_b[1] # 0

\* index i (1-based) of the correlation is excluded by the constraints
Eliminated(i) ==
    \/ /\ min_overlap_sec # 0
       /\ i <= MinOverlapFrames \/ i > Len(corr) - MinOverlapFrames
    \/ /\ max_shift_sec # 0
       /\ \/ i - 1 < HalfIdx(Len(corr)) - MaxShiftFrames
          \/ i - 1 >= HalfIdx(Len(corr)) + MaxShiftFrames

\* C6: when an envelope is empty, or the constraints exclude every lag of
\* the correlation, get_shift_ms ends in an error and returns no shift.
C6_DegenerateInputRejected ==
    /\ (pc # "call" /\ (Len(rms_a) = 0 \/ Len(rms_b) = 0)) => pc = "raised"
    /\ pc = "returned" => \E i \in 1..Len(corr) : ~Eliminated(i)

\* C7: with an unknown align_how, shift_align fails before any envelope is
\* extracted or any shift is estimated.
C7_UnknownPolicyRejectedFirst ==
    align_how \notin KnownPolicies
    => /\ pc \in {"call", "raised"}
       /\ rms_a = << >>
       /\ rms_b = << >>
       /\ corr = << >>

\* C8: the envelope has exactly one RMS value, in order, for every start
\* i in {0, hop, 2 * hop, ...} with i + win_length <= len(audio).
C8_EnvelopeFraming ==
    pc = "returned"
    => LET win_length == ms_to_samples(FFromInt(win_length_ms), sr_a)
           hop_length == ms_to_samples(FFromInt(hop_length_ms), sr_a)
           starts == {i \in 0..Len(audio_a) :
                         i % hop_length = 0 /\ i + win_length <= Len(audio_a)}
       IN  /\ Len(rms_a) = Cardinality(starts)
           /\ \A j \in 1..Len(rms_a) :
                 /\ (j - 1) * hop_length \in starts
                 /\ rms_a[j] = Rms(SubSeq(audio_a, (j - 1) * hop_length + 1,
                                          (j - 1) * hop_length + win_length))

\* C9: for min_overlap_sec > 0 and n = floor(min_overlap_sec * 1000 /
\* hop_length_ms), the first n and the last n entries of the normalized
\* correlation are zeroed and every other entry keeps its value.
C9_MinOverlapMasksEdgesOnly ==
    (pc = "returned" /\ min_overlap_sec > 0)
    => \A i \in 1..Len(corr_norm) :
          corr_min[i] = IF i <= MinOverlapFrames \/ i > Len(corr_norm) - MinOverlapFrames
                        THEN RatZero
                        ELSE corr_norm[i]

\* C10: the returned shift_ms is within one hop_length_ms of the start lag
\* (k - (len(rms_b) - 1)) * hop_length_ms of the selected index k.
C10_StartLagWithinOneHop ==
    pc = "returned"
    => LET k == ArgMax(corr)
       IN  Abs(TwiceShiftMs - 2 * (k - (Len(rms_b) - 1)) * hop_length_ms)
               <= 2 * hop_length_ms

C10_Witness ==
    /\ pc = "returned"
    /\ Len(rms_a) > Len(rms_b) + 1
    /\ ArgMax(corr) > 0
    /\ ArgMax(corr) # Len(rms_b) - 1
    /\ TwiceShiftMs # 0

====
